---- MODULE Spec2Model ----
(***************************************************************************)
(* Model of the ESO Reflex batch orchestrator.                             *)
(*                                                                         *)
(*   src/automation/sphere_batch_processor.py   the batch entry point      *)
(*   src/automation/automate.py                 the single-item entry point*)
(*                                                                         *)
(* File names are sequences of characters (the extension "fits", "txt" and *)
(* a formatted timestamp are each one symbol).  The engine's output tree   *)
(* is a function from node ids to nodes; the destination directory is a    *)
(* function from file names to contents.  The engine is a black box: what  *)
(* it has written is the tree the Locator finds; the per-input log is      *)
(* taken to be writable.  The run log (the ledger) is kept for the item    *)
(* under way only, each entry as its level and its message text.           *)
(*                                                                         *)
(*   Spec        a run of either entry point                               *)
(*   SpecLocate  find_output_products / the selection of move_outputs,     *)
(*               applied to every tree of up to MaxNodes nodes             *)
(*   SpecReloc   move_products_to_reduced_dir called up to MaxCalls times  *)
(*               on one artifact list                                      *)
(*   SpecLive    a batch run in which an engine may hang, with fairness    *)
(***************************************************************************)
EXTENDS Integers, Sequences, FiniteSets, TLC

\* ------------------------------------------------------------------ bounds
\* Largest number of nodes (directories and files) in the output tree.
MaxNodes == 3
\* Largest number of *.fits files in the raw-data directory.
MaxItems == 2
\* Largest number of output lines one engine run emits.
MaxLines == 1
\* The wall clock runs over the instants 0..MaxClock.
MaxClock == 2
\* Number of clock instants in one second (strftime drops the fraction).
TicksPerSecond == 2

\* ------------------------------------------------------------------- names
\* name + ".fits"
FitsName(s) == s \o <<".", "fits">>

\* name + ".txt"
TxtName(s) == s \o <<".", "txt">>

\* Python's `sub in s` on strings.
Contains(sub, s) ==
    \E i \in 1..(Len(s) - Len(sub) + 1) : SubSeq(s, i, i + Len(sub) - 1) = sub

\* Index of the last "." of a name, 0 when there is none (str.rfind + 1).
LastDot(name) ==
    LET dots == {i \in 1..Len(name) : name[i] = "."}
    IN  IF dots = {} THEN 0 ELSE CHOOSE i \in dots : \A j \in dots : j <= i

\* pathlib's PurePath.suffix: the text from the last dot on, unless the dot is
\* the first or the last character of the name.
PathSuffix(name) ==
    LET i == LastDot(name)
    IN  IF 1 < i /\ i < Len(name) THEN SubSeq(name, i, Len(name)) ELSE <<>>

\* pathlib's PurePath.stem: the name without its suffix.
PathStem(name) ==
    LET i == LastDot(name)
    IN  IF 1 < i /\ i < Len(name) THEN SubSeq(name, 1, i - 1) ELSE name

\* The glob pattern "*.fits" on one path component.
MatchesFitsGlob(name) ==
    Len(name) >= 2 /\ SubSeq(name, Len(name) - 1, Len(name)) = <<".", "fits">>

\* Code point of the first character of a symbol, for string comparison.
CharCode(c) ==
    CASE c = "." -> 46
      [] c = "_" -> 95
      [] c = "a" -> 97
      [] c = "b" -> 98
      [] c = "c" -> 99
      [] c = "fits" -> 102
      [] c = "txt" -> 116
      [] OTHER -> 50

\* Python's `<` on two strings (the order `sorted` uses on paths of one
\* directory).
StrLess(s, t) ==
    \E i \in 1..Len(t) :
        /\ \A j \in 1..(i - 1) : j <= Len(s) /\ s[j] = t[j]
        /\ \/ i = Len(s) + 1
           \/ i <= Len(s) /\ CharCode(s[i]) < CharCode(t[i])

\* The formatted timestamps, one symbol per second.
TimestampText == [s \in 0..(MaxClock \div TicksPerSecond) |->
                    <<"t0", "t1", "t2", "t3", "t4">>[s + 1]]

\* datetime.datetime.now().strftime("%Y%m%d_%H%M%S") at instant t.
Strftime(t) == TimestampText[t \div TicksPerSecond]

\* ------------------------------------------------------------- output tree
\* Names a node of the output tree may carry.
DirNames == {<<"a", "b">>, <<"b">>}
FileNames == {FitsName(<<"b">>), FitsName(<<"c">>), TxtName(<<"c">>)}

\* A tree is a function from node ids 1..n to nodes; parent 0 is the root of
\* the tree.  A node's parent is a directory with a smaller id, and
\* siblings have distinct names.
NodeSet(dirNames, fileNames) ==
    [parent : 0..(MaxNodes - 1), kind : {"dir"}, name : dirNames]
        \cup [parent : 0..(MaxNodes - 1), kind : {"file"}, name : fileNames]

WellFormedTree(t) ==
    \A i \in DOMAIN t :
        /\ t[i].parent < i
        /\ t[i].parent # 0 => t[t[i].parent].kind = "dir"
        /\ \A j \in DOMAIN t :
               (j # i /\ t[j].parent = t[i].parent) => t[j].name # t[i].name

TreesOver(dirNames, fileNames) ==
    UNION {{t \in [1..n -> NodeSet(dirNames, fileNames)] : WellFormedTree(t)} :
              n \in 0..MaxNodes}

\* Trees in which every directory holds at most one entry (a path of nested
\* directories such as TIMESTAMP/DATASET_tpl/out.fits).
SingleChildTree(t) ==
    \A i, j \in DOMAIN t : t[i].parent = t[j].parent => i = j

\* The entries of directory d (0: the root), in listing order.
Children(t, d) == {i \in DOMAIN t : t[i].parent = d}

\* Path.rglob("*") below directory d: every descendant, parents first.
RECURSIVE Walk(_, _)
RECURSIVE WalkEntries(_, _)
Walk(t, d) == WalkEntries(t, Children(t, d))

WalkEntries(t, kids) ==
    IF kids = {} THEN <<>>
    ELSE LET k == CHOOSE i \in kids : \A j \in kids : i <= j
         IN  <<k>> \o Walk(t, k) \o WalkEntries(t, kids \ {k})

\* Mutant of RglobFits: the pattern "*" instead of "*.fits".
RglobAnyName(t, d) == Walk(t, d)

\* Path.rglob("*.fits") below directory d.
RglobFits(t, d) == SelectSeq(Walk(t, d), LAMBDA i : MatchesFitsGlob(t[i].name))

\* Mutant of ProductDirs: the stem is not looked for in the directory name.
ProductDirsAnyName(t, stem) ==
    SelectSeq(Walk(t, 0), LAMBDA i : t[i].kind = "dir")

\* The directories below the root whose name contains the stem, in rglob order.
ProductDirs(t, stem) ==
    SelectSeq(Walk(t, 0), LAMBDA i : t[i].kind = "dir" /\ Contains(stem, t[i].name))

\* Concatenation of the *.fits listings of the given directories.
RECURSIVE CollectFits(_, _)
CollectFits(t, dirs) ==
    IF dirs = <<>> THEN <<>>
    ELSE RglobFits(t, Head(dirs)) \o CollectFits(t, Tail(dirs))

\* find_output_products: the list of node ids it returns.
find_output_products(exists, t, stem) ==
    IF ~exists THEN <<>> ELSE CollectFits(t, ProductDirs(t, stem))

\* Mutant of find_output_products_log: a missing root is passed over in
\* silence.
find_output_products_log_silent(exists) ==
    IF ~exists THEN <<>>
    ELSE <<[level |-> "INFO", msg |-> "Found output product(s)"]>>

\* find_output_products: what it writes to the run log.
find_output_products_log(exists) ==
    IF ~exists
    THEN <<[level |-> "WARNING", msg |-> "Reflex products directory does not exist"]>>
    ELSE <<[level |-> "INFO", msg |-> "Found output product(s)"]>>

\* The files move_outputs of automate.py selects: PIPELINE_OUTPUT_DIR.glob("*.fits")
\* (the entries of the root only) whose name contains the stem.
RECURSIVE SetToSeq(_)
SetToSeq(S) ==
    IF S = {} THEN <<>>
    ELSE LET k == CHOOSE i \in S : \A j \in S : i <= j
         IN  <<k>> \o SetToSeq(S \ {k})

move_outputs_matches(exists, t, stem) ==
    IF ~exists THEN <<>>
    ELSE SelectSeq(SetToSeq(Children(t, 0)),
                   LAMBDA i : MatchesFitsGlob(t[i].name) /\ Contains(stem, t[i].name))

\* --------------------------------------------------------------- raw data
\* Names a file of the raw-data directory may carry.
RawFits == {FitsName(<<"a">>), FitsName(<<"b">>), FitsName(<<"a", "b">>)}
RawNames == RawFits \cup {TxtName(<<"b">>)}

\* Mutant of SortedPaths: descending order.
RECURSIVE SortedPathsDescending(_)
SortedPathsDescending(S) ==
    IF S = {} THEN <<>>
    ELSE LET m == CHOOSE x \in S : \A y \in S : y = x \/ StrLess(y, x)
         IN  <<m>> \o SortedPathsDescending(S \ {m})

\* The raw-data directories a batch starts from: empty, or up to MaxItems
\* *.fits files beside a file that is not one.
RawDirs ==
    {{}} \cup {d \cup (RawNames \ RawFits) :
                  d \in {x \in SUBSET RawFits : Cardinality(x) <= MaxItems}}

\* sorted(paths): ascending by string comparison.
RECURSIVE SortedPaths(_)
SortedPaths(S) ==
    IF S = {} THEN <<>>
    ELSE LET m == CHOOSE x \in S : \A y \in S : y = x \/ StrLess(x, y)
         IN  <<m>> \o SortedPaths(S \ {m})

\* Mutant of get_fits_files: every file of the directory, whatever its name.
get_fits_files_any_name(dir) == SortedPaths(dir)

\* get_fits_files: RAW_DATA_DIR.glob("*.fits"), sorted.
get_fits_files(dir) == SortedPaths({n \in dir : MatchesFitsGlob(n)})

\* Exit statuses of the engine's child process.
ExitCodes == {0, 1, 2}

\* Contents of a destination file: the id of the tree node it was copied
\* from, Old for a file that was there before the run, Partial for what a
\* failed copy leaves behind.
NodeContent(i) == <<"node", i>>
Old == <<"old", 0>>
Partial == <<"partial", 0>>

\* Destination directories at the start of a run.
InitDestNames == {FitsName(<<"b">>), FitsName(<<"c">>)}

VARIABLES
    entry,        \* "batch": sphere_batch_processor.py, "single": automate.py
    argv,         \* sys.argv[1:]
    rawDir,       \* names of the files in RAW_DATA_DIR
    rootExists,   \* whether the output root directory exists
    outTree,      \* the engine's output tree
    destDir,      \* REDUCED_DATA_DIR / FINAL_REDUCED_DIR: name -> content
    now,          \* the wall clock
    pc,           \* position of the program
    fits_files,   \* main: the scanned items, in processing order
    idx,          \* main: index of the item of the current loop iteration
    successful,   \* main: tally
    failed,       \* main: tally
    returncode,   \* exit status of the current child (NoCode: none yet)
    markerSeen,   \* a completion marker appeared in the current child's output
    nlines,       \* lines read from the current child
    products,     \* the located artifacts of the current item
    pidx,         \* position of the copy loop in products
    invoked,      \* every engine launch attempted so far, by item
    relocated,    \* every artifact copied or moved so far: [stem, node, name]
    runs,         \* per finished item: its outcome and the cause of a failure
    last,         \* the RunRecord of the item finished last (<<>>: none yet)
    exitStatus,   \* exit status of the orchestrator (NoCode: still running)
    ledger,       \* the entries written to the run log since the item (or the
                  \* call) under way began
    logOnDisk     \* lines of the current child's output that are in the log
                  \* file on disk (the others are in the writer's buffer)

vars == <<entry, argv, rawDir, rootExists, outTree, destDir, now, pc, fits_files,
          idx, successful, failed, returncode, markerSeen, nlines, products,
          pidx, invoked, relocated, runs, last, exitStatus, ledger, logOnDisk>>

\* Largest number of command-line arguments given to automate.py.
MaxArgs == 2

NoCode == 0 - 1

\* Output lines of the engine; two of them carry a completion marker.
Lines == {"other", "Dataset has been reduced", "reduced and saved"}

IsMarker(line) == line \in {"Dataset has been reduced", "reduced and saved"}

\* The output trees a run starts from.
RunTrees == {t \in TreesOver(DirNames, FileNames) : SingleChildTree(t)}

\* The argument lists automate.py is started with.
ArgLists == UNION {[1..n -> {FitsName(<<"a">>), FitsName(<<"b">>)}] : n \in 0..MaxArgs}

\* The clock values a later reading of the clock can give.
Later(t) == t..MaxClock

\* The clock values the copy of a product named `name` can read: the clock
\* is read only when the destination holds a file of that name.
ClockReads(name, dir, t) == IF name \in DOMAIN dir THEN Later(t) ELSE {t}

\* dir with file `name` holding `content` (created or overwritten, as
\* open(dst, "wb") does).
Put(dir, name, content) ==
    [n \in DOMAIN dir \cup {name} |-> IF n = name THEN content ELSE dir[n]]

\* The item the program works on.
Item == IF entry = "batch" THEN fits_files[idx] ELSE argv[1]

\* The names of the ancestor directories of node i, nearest first (the root
\* itself excluded).
RECURSIVE DirsAbove(_, _)
DirsAbove(t, i) ==
    IF t[i].parent = 0 THEN <<>>
    ELSE <<t[t[i].parent].name>> \o DirsAbove(t, t[i].parent)

\* What is remembered of a relocated artifact: the item's stem, the source
\* node, its name, the directories above it and the destination name.
Relocated(stem, t, p, d) ==
    [stem |-> stem, node |-> p, src |-> t[p].name, dirs |-> DirsAbove(t, p),
     name |-> d]

\* One entry of the run log (the ledger): its level and its message, without
\* the names and numbers the message is formatted with.
Entry(level, msg) == [level |-> level, msg |-> msg]

\* log_info, log_warning, log_error of sphere_batch_processor.py.
Info(msg) == Entry("INFO", msg)
Warning(msg) == Entry("WARNING", msg)
Error(msg) == Entry("ERROR", msg)

\* append_log of automate.py: a message with no level.
Plain(msg) == Entry("", msg)

\* What process_single_file logs before it starts the engine, and the first
\* entry of launch_reflex_with_gui_automation.
ItemStart ==
    <<Info("Processing"), Warning("MANUAL INTERACTION REQUIRED"),
      Info("Launching Reflex")>>

\* The buffered writer of the log file, after a write that brings the lines
\* written to n: it holds the lines back until its buffer is full, so any
\* number of them from those on disk before up to n can be on disk.
AfterWrite(onDisk, n) == onDisk..n

\* Mutant of move_products_failure_log: one message for both failures.
move_products_failure_log_same(empty) == <<Error("Failed to move products:")>>

\* move_products_to_reduced_dir: what it logs when it returns False, for an
\* empty list of products and for a copy that raised.
move_products_failure_log(empty) ==
    IF empty THEN <<Warning("No products found to move")>>
    ELSE <<Error("Failed to move products:")>>

\* The program's own variables before main runs.
InitProgram ==
    /\ now = 0
    /\ fits_files = <<>>
    /\ idx = 0
    /\ successful = 0
    /\ failed = 0
    /\ returncode = NoCode
    /\ markerSeen = FALSE
    /\ nlines = 0
    /\ pidx = 0
    /\ invoked = <<>>
    /\ relocated = {}
    /\ exitStatus = NoCode
    /\ ledger = <<>>
    /\ logOnDisk = 0

Init ==
    /\ entry \in {"batch", "single"}
    /\ argv \in (IF entry = "batch" THEN {<<>>} ELSE ArgLists)
    /\ rawDir \in (IF entry = "batch" THEN RawDirs ELSE {{argv[i] : i \in DOMAIN argv}})
    /\ rootExists \in BOOLEAN
    /\ outTree \in (IF rootExists THEN RunTrees ELSE {<<>>})
    /\ destDir \in {[n \in D |-> Old] : D \in SUBSET InitDestNames}
    /\ pc = "start"
    /\ products = <<>>
    /\ runs = <<>>
    /\ last = <<>>
    /\ InitProgram

\* The file systems, the clock and the located artifacts.
filesVars == <<rawDir, rootExists, outTree, destDir, now>>
childVars == <<returncode, markerSeen, nlines, logOnDisk>>
tallyVars == <<idx, successful, failed, runs, last, exitStatus>>
constVars == <<entry, argv>>

\* ------------------------------------------- sphere_batch_processor.py
\* main, up to the first loop iteration: scan the raw-data directory; with
\* no input file, return 0.
Main ==
    /\ pc = "start"
    /\ entry = "batch"
    /\ fits_files' = get_fits_files(rawDir)
    /\ IF fits_files' = <<>>
       THEN /\ pc' = "done" /\ exitStatus' = 0 /\ idx' = idx
            /\ ledger' = <<Info("SPHERE IFS Batch Processing Pipeline"),
                           Info("Found FITS file(s) to process"),
                           Warning("No FITS files found in raw_data directory")>>
       ELSE /\ pc' = "launch" /\ exitStatus' = exitStatus /\ idx' = 1
            /\ ledger' = <<Info("SPHERE IFS Batch Processing Pipeline"),
                           Info("Found FITS file(s) to process")>>
    /\ UNCHANGED <<filesVars, childVars, constVars, successful, failed, runs,
                   last, products, pidx, invoked, relocated>>

\* Mutant of BatchExitStatus: `return 0`.
BatchExitStatusAlwaysZero(nfailed) == 0

\* `return 0 if failed == 0 else 1`
BatchExitStatus(nfailed) == IF nfailed = 0 THEN 0 ELSE 1

\* The entry of the tally's history for one item.
Outcome(item, result, cause) == [item |-> item, result |-> result, cause |-> cause]

\* Mutant of FinishItem: a failed item ends the loop.
FinishItemStopsAtFailure(ok, cause, rec) ==
    /\ successful' = IF ok THEN successful + 1 ELSE successful
    /\ failed' = IF ok THEN failed ELSE failed + 1
    /\ runs' = Append(runs, Outcome(rec.item, IF ok THEN "succeeded" ELSE "failed", cause))
    /\ last' = <<[rec EXCEPT !.result = IF ok THEN "succeeded" ELSE "failed",
                             !.cause = cause]>>
    /\ IF idx < Len(fits_files) /\ ok
       THEN pc' = "launch" /\ idx' = idx + 1 /\ exitStatus' = exitStatus
       ELSE pc' = "done" /\ idx' = idx /\ exitStatus' = BatchExitStatus(failed')
    /\ returncode' = NoCode
    /\ markerSeen' = FALSE
    /\ nlines' = 0
    /\ logOnDisk' = 0
    /\ products' = <<>>
    /\ pidx' = 0

\* Mutant of FinishItem: `failed += 1` stands outside the else branch.
FinishItemCountsEveryItemFailed(ok, cause, rec) ==
    /\ successful' = IF ok THEN successful + 1 ELSE successful
    /\ failed' = failed + 1
    /\ runs' = Append(runs, Outcome(rec.item, IF ok THEN "succeeded" ELSE "failed", cause))
    /\ last' = <<[rec EXCEPT !.result = IF ok THEN "succeeded" ELSE "failed",
                             !.cause = cause]>>
    /\ IF idx < Len(fits_files)
       THEN pc' = "launch" /\ idx' = idx + 1 /\ exitStatus' = exitStatus
       ELSE pc' = "done" /\ idx' = idx /\ exitStatus' = BatchExitStatus(failed')
    /\ returncode' = NoCode
    /\ markerSeen' = FALSE
    /\ nlines' = 0
    /\ logOnDisk' = 0
    /\ products' = <<>>
    /\ pidx' = 0

\* The end of one loop iteration of main: process_single_file has returned
\* ok; count it, and go on to the next item or return the exit status.
FinishItem(ok, cause, rec) ==
    /\ successful' = IF ok THEN successful + 1 ELSE successful
    /\ failed' = IF ok THEN failed ELSE failed + 1
    /\ runs' = Append(runs, Outcome(rec.item, IF ok THEN "succeeded" ELSE "failed", cause))
    /\ last' = <<[rec EXCEPT !.result = IF ok THEN "succeeded" ELSE "failed",
                             !.cause = cause]>>
    /\ IF idx < Len(fits_files)
       THEN pc' = "launch" /\ idx' = idx + 1 /\ exitStatus' = exitStatus
       ELSE pc' = "done" /\ idx' = idx /\ exitStatus' = BatchExitStatus(failed')
    /\ returncode' = NoCode
    /\ markerSeen' = FALSE
    /\ nlines' = 0
    /\ logOnDisk' = 0
    /\ products' = <<>>
    /\ pidx' = 0

\* What main logs after the loop, when the item under way is the last one.
BatchSummary ==
    IF idx < Len(fits_files) THEN <<>> ELSE <<Info("BATCH PROCESSING COMPLETE")>>

\* The RunRecord of the current item.
Record(launched, rc, ok, nfound, ncopied) ==
    [item |-> Item, launched |-> launched, rc |-> rc, marker |-> markerSeen,
     invokeOK |-> ok, nfound |-> nfound, ncopied |-> ncopied, result |-> "none",
     cause |-> "none"]

\* Mutant of InvocationResult: a completion marker counts as success.
InvocationResultByMarker(rc, marker) == rc = 0 \/ marker

\* launch_reflex_with_gui_automation: what it returns for exit status rc.
InvocationResult(rc, marker) == rc = 0

\* subprocess.Popen raises (executable missing, not runnable): the except
\* clause logs it and returns False.
LaunchFails ==
    /\ pc = "launch"
    /\ entry = "batch"
    /\ invoked' = Append(invoked, Item)
    /\ ledger' = ItemStart \o <<Error("Failed to launch Reflex"),
                                Error("Skipping - Reflex failed")>> \o BatchSummary
    /\ FinishItem(FALSE, "LaunchFailure", Record(FALSE, NoCode, FALSE, 0, 0))
    /\ UNCHANGED <<filesVars, constVars, fits_files, relocated>>

\* subprocess.Popen starts the child; the per-input log is opened.
Launch ==
    /\ pc = "launch"
    /\ entry = "batch"
    /\ invoked' = Append(invoked, Item)
    /\ ledger' = ItemStart
    /\ pc' = "stream"
    /\ UNCHANGED <<filesVars, childVars, tallyVars, constVars, fits_files,
                   products, pidx, relocated>>

\* One iteration of `for line in process.stdout`.
ReadLine ==
    /\ pc = "stream"
    /\ entry = "batch"
    /\ nlines < MaxLines
    /\ \E line \in Lines :
        /\ nlines' = nlines + 1
        /\ markerSeen' = (markerSeen \/ IsMarker(line))
        /\ ledger' = IF IsMarker(line)
                     THEN Append(ledger, Info("Pipeline completed"))
                     ELSE ledger
    /\ logOnDisk' \in AfterWrite(logOnDisk, nlines')
    /\ UNCHANGED <<filesVars, tallyVars, constVars, pc, fits_files, returncode,
                   products, pidx, invoked, relocated>>

\* Mutant of WaitExit: the wait for the child is given up after a while, and
\* the child's status taken, though the child has not closed its output.
WaitExitAfterTimeout ==
    /\ pc \in {"stream", "hung"}
    /\ entry = "batch"
    /\ \E rc \in ExitCodes :
        IF InvocationResult(rc, markerSeen)
        THEN /\ returncode' = rc
             /\ pc' = "locate"
             /\ logOnDisk' = nlines
             /\ ledger' = Append(ledger, Info("Reflex finished successfully"))
             /\ UNCHANGED <<tallyVars, markerSeen, nlines, products, pidx>>
        ELSE /\ ledger' = ledger \o <<Error("Reflex exited with code"),
                                      Error("Skipping - Reflex failed")>>
                                 \o BatchSummary
             /\ FinishItem(FALSE, "EngineExitFailure", Record(TRUE, rc, FALSE, 0, 0))
    /\ UNCHANGED <<filesVars, constVars, fits_files, invoked, relocated>>

\* The child closes its output and exits: process.wait() gives its status.
WaitExit ==
    /\ pc = "stream"
    /\ entry = "batch"
    /\ \E rc \in ExitCodes :
        IF InvocationResult(rc, markerSeen)
        THEN /\ returncode' = rc
             /\ pc' = "locate"
             /\ logOnDisk' = nlines
             /\ ledger' = Append(ledger, Info("Reflex finished successfully"))
             /\ UNCHANGED <<tallyVars, markerSeen, nlines, products, pidx>>
        ELSE /\ ledger' = ledger \o <<Error("Reflex exited with code"),
                                      Error("Skipping - Reflex failed")>>
                                 \o BatchSummary
             /\ FinishItem(FALSE, "EngineExitFailure", Record(TRUE, rc, FALSE, 0, 0))
    /\ UNCHANGED <<filesVars, constVars, fits_files, invoked, relocated>>

\* Mutant of Locate: an item with no artifact counts as succeeded.
LocateEmptySucceeds ==
    /\ pc = "locate"
    /\ entry = "batch"
    /\ products' = find_output_products(rootExists, outTree, PathStem(Item))
    /\ IF products' = <<>>
       THEN /\ ledger' = ledger \o find_output_products_log(rootExists)
                                 \o <<Info("Successfully processed")>>
                                 \o BatchSummary
            /\ FinishItem(TRUE, "none", Record(TRUE, returncode, TRUE, 0, 0))
       ELSE /\ ledger' = ledger \o find_output_products_log(rootExists)
            /\ pc' = "copy"
            /\ pidx' = 1
            /\ UNCHANGED <<tallyVars, childVars>>
    /\ UNCHANGED <<filesVars, constVars, fits_files, invoked, relocated>>

\* find_output_products, and move_products_to_reduced_dir up to its loop:
\* an empty list is logged and makes the item fail.
Locate ==
    /\ pc = "locate"
    /\ entry = "batch"
    /\ products' = find_output_products(rootExists, outTree, PathStem(Item))
    /\ IF products' = <<>>
       THEN /\ ledger' = ledger \o find_output_products_log(rootExists)
                                 \o move_products_failure_log(TRUE)
                                 \o <<Error("Failed to move products for")>>
                                 \o BatchSummary
            /\ FinishItem(FALSE, "NoArtifactsFound", Record(TRUE, returncode, TRUE, 0, 0))
       ELSE /\ ledger' = ledger \o find_output_products_log(rootExists)
            /\ pc' = "copy"
            /\ pidx' = 1
            /\ UNCHANGED <<tallyVars, childVars>>
    /\ UNCHANGED <<filesVars, constVars, fits_files, invoked, relocated>>

\* The destination path move_products_to_reduced_dir chooses for a product
\* named `name` when the clock reads t.
DestName(name, dir, t) ==
    IF name \in DOMAIN dir
    THEN PathStem(name) \o <<"_", Strftime(t)>> \o PathSuffix(name)
    ELSE name

\* The body of the copy loop for products[pidx], the clock reading t:
\* shutil.copy2 succeeds.
CopyProduct(t) ==
    LET p == products[pidx]
        d == DestName(outTree[p].name, destDir, t)
    IN  /\ now' = t
        /\ destDir' = Put(destDir, d, NodeContent(p))
        /\ relocated' = relocated \cup {Relocated(PathStem(Item), outTree, p, d)}

\* The body of the copy loop: shutil.copy2 raises; the destination file is
\* untouched, or was opened for writing and holds a part of the data.
CopyProductFails(t, opened) ==
    LET p == products[pidx]
        d == DestName(outTree[p].name, destDir, t)
    IN  /\ now' = t
        /\ destDir' = IF opened THEN Put(destDir, d, Partial) ELSE destDir
        /\ relocated' = relocated

\* One iteration of the copy loop: shutil.copy2 succeeds.
Copy ==
    /\ pc = "copy"
    /\ entry = "batch"
    /\ \E t \in ClockReads(outTree[products[pidx]].name, destDir, now) :
        CopyProduct(t)
    /\ IF pidx < Len(products)
       THEN /\ pidx' = pidx + 1
            /\ ledger' = Append(ledger, Info("Moved"))
            /\ UNCHANGED <<tallyVars, childVars, pc, products>>
       ELSE /\ ledger' = ledger \o <<Info("Moved"), Info("Successfully processed")>>
                                 \o BatchSummary
            /\ FinishItem(TRUE, "none",
                          Record(TRUE, returncode, TRUE, Len(products), Len(products)))
    /\ UNCHANGED <<rawDir, rootExists, outTree, constVars, fits_files, invoked>>

\* One iteration of the copy loop: shutil.copy2 raises, and the except clause
\* returns False.
CopyFails ==
    /\ pc = "copy"
    /\ entry = "batch"
    /\ \E t \in ClockReads(outTree[products[pidx]].name, destDir, now),
          opened \in BOOLEAN :
        CopyProductFails(t, opened)
    /\ ledger' = ledger \o move_products_failure_log(FALSE)
                        \o <<Error("Failed to move products for")>> \o BatchSummary
    /\ FinishItem(FALSE, "RelocationIOFailure",
                  Record(TRUE, returncode, TRUE, Len(products), pidx - 1))
    /\ UNCHANGED <<rawDir, rootExists, outTree, constVars, fits_files, invoked>>

BatchNext == Main \/ LaunchFails \/ Launch \/ ReadLine \/ WaitExit \/ Locate
                 \/ Copy \/ CopyFails

\* ------------------------------------------------------------ automate.py
\* The outcome the single-item entry point ends with: it keeps no tally.
EndSingle(rec, how, cause, status) ==
    /\ runs' = Append(runs, Outcome(rec.item, how, cause))
    /\ last' = <<[rec EXCEPT !.result = how, !.cause = cause]>>
    /\ pc' = "done"
    /\ exitStatus' = status
    /\ returncode' = NoCode
    /\ markerSeen' = FALSE
    /\ nlines' = 0
    /\ logOnDisk' = 0
    /\ products' = <<>>
    /\ pidx' = 0
    /\ UNCHANGED <<idx, successful, failed>>

\* Mutant of S_Main: only a missing argument is refused.
S_MainMissingOnly ==
    /\ pc = "start"
    /\ entry = "single"
    /\ IF Len(argv) = 0
       THEN pc' = "done" /\ exitStatus' = 1
       ELSE pc' = "launch" /\ exitStatus' = exitStatus
    /\ UNCHANGED <<filesVars, childVars, constVars, fits_files, idx, successful,
                   failed, runs, last, products, pidx, invoked, relocated, ledger>>

\* main: sys.exit(1) unless exactly one argument is given.
S_Main ==
    /\ pc = "start"
    /\ entry = "single"
    /\ IF Len(argv) # 1
       THEN pc' = "done" /\ exitStatus' = 1
       ELSE pc' = "launch" /\ exitStatus' = exitStatus
    /\ UNCHANGED <<filesVars, childVars, constVars, fits_files, idx, successful,
                   failed, runs, last, products, pidx, invoked, relocated, ledger>>

\* run_pipeline: subprocess.Popen raises; nothing catches it, and the
\* interpreter ends with a traceback and status 1.
S_LaunchFails ==
    /\ pc = "launch"
    /\ entry = "single"
    /\ invoked' = Append(invoked, Item)
    /\ ledger' = <<Plain("[run_pipeline] Launching")>>
    /\ EndSingle(Record(FALSE, NoCode, FALSE, 0, 0), "crashed", "LaunchFailure", 1)
    /\ UNCHANGED <<filesVars, constVars, fits_files, relocated>>

\* run_pipeline: subprocess.Popen starts the child.
S_Launch ==
    /\ pc = "launch"
    /\ entry = "single"
    /\ invoked' = Append(invoked, Item)
    /\ ledger' = <<Plain("[run_pipeline] Launching")>>
    /\ pc' = "stream"
    /\ UNCHANGED <<filesVars, childVars, tallyVars, constVars, fits_files,
                   products, pidx, relocated>>

\* run_pipeline: one iteration of `for line in process.stdout`; the line is
\* printed and written to the run log's buffered writer (the engine's lines
\* are counted in logOnDisk, and are not entries of ledger).
S_ReadLine ==
    /\ pc = "stream"
    /\ entry = "single"
    /\ nlines < MaxLines
    /\ \E line \in Lines :
        /\ nlines' = nlines + 1
        /\ markerSeen' = (markerSeen \/ IsMarker(line))
    /\ logOnDisk' \in AfterWrite(logOnDisk, nlines')
    /\ UNCHANGED <<filesVars, tallyVars, constVars, pc, fits_files, returncode,
                   products, pidx, invoked, relocated, ledger>>

\* run_pipeline: `if returncode == 0`.
S_InvocationResult(rc, marker) == rc = 0

\* run_pipeline: process.wait(); status 0 goes on to move_outputs, whose
\* glob selects the files to move; any other status is logged, and main
\* returns.
S_WaitExit ==
    /\ pc = "stream"
    /\ entry = "single"
    /\ \E rc \in ExitCodes :
        IF S_InvocationResult(rc, markerSeen)
        THEN LET found == move_outputs_matches(rootExists, outTree, PathStem(Item))
             IN  IF found = <<>>
                 THEN /\ ledger' = ledger \o <<Plain("[run_pipeline] Exit code"),
                                               Plain("[move_outputs] Moved file(s)")>>
                      /\ EndSingle(Record(TRUE, rc, TRUE, 0, 0), "succeeded", "none", 0)
                 ELSE /\ returncode' = rc
                      /\ products' = found
                      /\ pidx' = 1
                      /\ pc' = "move"
                      /\ logOnDisk' = nlines
                      /\ ledger' = Append(ledger, Plain("[run_pipeline] Exit code"))
                      /\ UNCHANGED <<tallyVars, markerSeen, nlines>>
        ELSE /\ ledger' = ledger \o <<Plain("[run_pipeline] Exit code"),
                                      Plain("[ERROR] Pipeline failed")>>
             /\ EndSingle(Record(TRUE, rc, FALSE, 0, 0), "failed", "EngineExitFailure", 0)
    /\ UNCHANGED <<filesVars, constVars, fits_files, invoked, relocated>>

\* The tree without node k.
Removed(t, k) == [i \in DOMAIN t \ {k} |-> t[i]]

\* move_outputs: one iteration of its loop; shutil.move renames the file into
\* FINAL_REDUCED_DIR under its own name.
S_Move ==
    /\ pc = "move"
    /\ entry = "single"
    /\ LET p == products[pidx]
           d == outTree[p].name
       IN  /\ destDir' = Put(destDir, d, NodeContent(p))
           /\ outTree' = Removed(outTree, p)
           /\ relocated' = relocated \cup {Relocated(PathStem(Item), outTree, p, d)}
    /\ IF pidx < Len(products)
       THEN /\ pidx' = pidx + 1
            /\ UNCHANGED <<tallyVars, childVars, pc, products, ledger>>
       ELSE /\ ledger' = Append(ledger, Plain("[move_outputs] Moved file(s)"))
            /\ EndSingle(Record(TRUE, returncode, TRUE, Len(products), Len(products)),
                         "succeeded", "none", 0)
    /\ UNCHANGED <<rawDir, rootExists, now, constVars, fits_files, invoked>>

\* move_outputs: shutil.move raises; nothing catches it.
S_MoveFails ==
    /\ pc = "move"
    /\ entry = "single"
    /\ EndSingle(Record(TRUE, returncode, TRUE, Len(products), pidx - 1), "crashed",
                 "RelocationIOFailure", 1)
    /\ UNCHANGED <<filesVars, constVars, fits_files, invoked, relocated, ledger>>

SingleNext == S_Main \/ S_LaunchFails \/ S_Launch \/ S_ReadLine \/ S_WaitExit
                  \/ S_Move \/ S_MoveFails

Next == BatchNext \/ SingleNext

Spec == Init /\ [][Next]_vars

\* ------------------------------------------------- termination of a batch
\* The child writes no further line and never closes its output: the
\* iteration `for line in process.stdout` blocks, and no timeout ends it.
Hang ==
    /\ pc = "stream"
    /\ entry = "batch"
    /\ pc' = "hung"
    /\ UNCHANGED <<filesVars, childVars, tallyVars, constVars, fits_files,
                   products, pidx, invoked, relocated, ledger>>

\* A batch over an empty destination directory; the output tree is empty or
\* one entry of the root, a directory of which may hold a file.
InitLive ==
    /\ Init
    /\ entry = "batch"
    /\ destDir = <<>>
    /\ \A i \in DOMAIN outTree : outTree[i].parent = 0 \/ outTree[i].kind = "file"

NextLive == BatchNext \/ Hang

\* The orchestrator takes its next step whenever it is not blocked, and a
\* child that is read from writes a line, ends, or hangs for good.
SpecLive == InitLive /\ [][NextLive]_vars /\ WF_vars(NextLive)

\* ------------------------------------------------- the Locator on its own
\* Output trees for the Locator: any shape, and a directory may carry a
\* name that ends in ".fits".
LocateTrees == TreesOver(DirNames \cup {FitsName(<<"c">>)}, FileNames)

InitLocate ==
    /\ entry = "locate"
    /\ argv \in {<<n>> : n \in RawFits}
    /\ rawDir = {argv[1]}
    /\ rootExists \in BOOLEAN
    /\ outTree \in (IF rootExists THEN LocateTrees ELSE {<<>>})
    /\ destDir = <<>>
    /\ pc = "start"
    /\ products = <<>>
    /\ runs = <<>>
    /\ last = <<>>
    /\ InitProgram

\* find_output_products(fits_file) applied to the tree.
L_Find ==
    /\ pc = "start"
    /\ entry = "locate"
    /\ products' = find_output_products(rootExists, outTree, PathStem(Item))
    /\ ledger' = find_output_products_log(rootExists)
    /\ pc' = "located"
    /\ UNCHANGED <<filesVars, childVars, tallyVars, constVars, fits_files, pidx,
                   invoked, relocated>>

\* The selection of move_outputs(input_fits_file) applied to the tree.
L_Matches ==
    /\ pc = "start"
    /\ entry = "locate"
    /\ products' = move_outputs_matches(rootExists, outTree, PathStem(Item))
    /\ pc' = "matched"
    /\ UNCHANGED <<filesVars, childVars, tallyVars, constVars, fits_files, pidx,
                   invoked, relocated, ledger>>

NextLocate == L_Find \/ L_Matches

SpecLocate == InitLocate /\ [][NextLocate]_vars

\* ------------------------------------------------ the Relocator on its own
\* Largest number of calls of the Relocator on one artifact list.
MaxCalls == 2

\* One call of move_products_to_reduced_dir: the number of files in the
\* destination when it starts and when it returns, what it returns
\* ("running" until then), the destination names it has written in full, in
\* order, and the position in the list of the copy that raised (0: none).
Call(before, after, ok, copies, failedAt) ==
    [before |-> before, after |-> after, ok |-> ok, copies |-> copies,
     failedAt |-> failedAt]

InitReloc ==
    /\ entry = "reloc"
    /\ argv \in {<<n>> : n \in RawFits}
    /\ rawDir = {argv[1]}
    /\ rootExists = TRUE
    /\ outTree \in TreesOver(DirNames, FileNames)
    /\ products = find_output_products(rootExists, outTree, PathStem(Item))
    /\ destDir \in {[n \in D |-> Old] : D \in SUBSET InitDestNames}
    /\ pc = "call"
    /\ runs = <<>>
    /\ last = <<>>
    /\ InitProgram

\* The call under way.
ThisCall == runs[Len(runs)]

\* The Relocator returns ok to its caller.
R_Return(ok, copies, failedAt) ==
    /\ runs' = [runs EXCEPT ![Len(runs)] =
                   Call(ThisCall.before, Cardinality(DOMAIN destDir'), ok, copies,
                        failedAt)]
    /\ pc' = "call"
    /\ pidx' = 0

\* move_products_to_reduced_dir(products, fits_file) is called: an empty list
\* is logged and returns False.
R_Call ==
    /\ pc = "call"
    /\ entry = "reloc"
    /\ Len(runs) < MaxCalls
    /\ LET n == Cardinality(DOMAIN destDir)
       IN  IF products = <<>>
           THEN /\ runs' = Append(runs, Call(n, n, "False", <<>>, 0))
                /\ ledger' = move_products_failure_log(TRUE)
                /\ UNCHANGED <<pc, pidx>>
           ELSE /\ runs' = Append(runs, Call(n, n, "running", <<>>, 0))
                /\ ledger' = <<>>
                /\ pc' = "copy"
                /\ pidx' = 1
    /\ UNCHANGED <<filesVars, childVars, constVars, fits_files, idx, successful,
                   failed, last, exitStatus, products, invoked, relocated>>

\* One iteration of the copy loop: shutil.copy2 succeeds.
R_Copy ==
    /\ pc = "copy"
    /\ entry = "reloc"
    /\ \E t \in ClockReads(outTree[products[pidx]].name, destDir, now) :
        LET copies == Append(ThisCall.copies,
                             DestName(outTree[products[pidx]].name, destDir, t))
        IN  /\ CopyProduct(t)
            /\ IF pidx < Len(products)
               THEN /\ pidx' = pidx + 1
                    /\ runs' = [runs EXCEPT ![Len(runs)].copies = copies]
                    /\ pc' = pc
               ELSE R_Return("True", copies, 0)
    /\ ledger' = Append(ledger, Info("Moved"))
    /\ UNCHANGED <<rawDir, rootExists, outTree, childVars, constVars, fits_files,
                   idx, successful, failed, last, exitStatus, products, invoked>>

\* One iteration of the copy loop: shutil.copy2 raises, and the except clause
\* returns False.
R_CopyFails ==
    /\ pc = "copy"
    /\ entry = "reloc"
    /\ \E t \in ClockReads(outTree[products[pidx]].name, destDir, now),
          opened \in BOOLEAN :
        CopyProductFails(t, opened)
    /\ R_Return("False", ThisCall.copies, pidx)
    /\ ledger' = ledger \o move_products_failure_log(FALSE)
    /\ UNCHANGED <<rawDir, rootExists, outTree, childVars, constVars, fits_files,
                   idx, successful, failed, last, exitStatus, products, invoked>>

NextReloc == R_Call \/ R_Copy \/ R_CopyFails

SpecReloc == InitReloc /\ [][NextReloc]_vars

\* ------------------------------------------------------------------ claims
\* The set of elements of a sequence.
Range(q) == {q[i] : i \in DOMAIN q}

\* The stem occurs in the name of node i or of a directory above it.
PathHasStem(t, i, stem) ==
    \/ Contains(stem, t[i].name)
    \/ \E k \in DOMAIN DirsAbove(t, i) : Contains(stem, DirsAbove(t, i)[k])

\* The stem occurs in the name of a directory above node i.
BelowStemDir(t, i, stem) ==
    \E k \in DOMAIN DirsAbove(t, i) : Contains(stem, DirsAbove(t, i)[k])

\* C1: relocation never overwrites: in every step, every file of the
\* destination directory is still there afterwards with the same content.
C1_NeverOverwrites ==
    [][\A n \in DOMAIN destDir : n \in DOMAIN destDir' /\ destDir'[n] = destDir[n]]_vars

\* C2 as stated: the Locator returns exactly the files of the output tree
\* whose path contains the stem.
C2_ExactlyPathsWithStem ==
    pc \in {"located", "matched"} =>
        Range(products) =
            {i \in DOMAIN outTree :
                outTree[i].kind = "file" /\ PathHasStem(outTree, i, PathStem(Item))}

\* C2 as amended: find_output_products returns exactly the entries named
\* *.fits that lie below a directory whose name contains the stem, and
\* nothing when the root does not exist; the selection of move_outputs is
\* exactly the *.fits entries of the root whose own name contains the stem;
\* the path of every entry returned contains the stem.
C2_FitsBelowStemDirs ==
    LET stem == PathStem(Item)
    IN  /\ pc = "located" =>
              /\ Range(products) =
                     {i \in DOMAIN outTree :
                         MatchesFitsGlob(outTree[i].name) /\ BelowStemDir(outTree, i, stem)}
              /\ ~rootExists => products = <<>>
        /\ pc = "matched" =>
              Range(products) =
                  {i \in DOMAIN outTree :
                      /\ outTree[i].parent = 0
                      /\ MatchesFitsGlob(outTree[i].name)
                      /\ Contains(stem, outTree[i].name)}
        /\ pc \in {"located", "matched"} =>
              \A i \in Range(products) : PathHasStem(outTree, i, stem)

\* C2 witness: the Locator has returned products, and has left out a file
\* whose path contains the stem.
C2_Witness ==
    /\ pc = "located"
    /\ products # <<>>
    /\ \E i \in DOMAIN outTree :
          /\ outTree[i].kind = "file"
          /\ PathHasStem(outTree, i, PathStem(Item))
          /\ i \notin Range(products)

\* C3 as stated: the stem of the item occurs in the name of the directory that
\* immediately contains a relocated artifact, or in the artifact's file name.
C3_StemInParentOrName ==
    \A r \in relocated :
        \/ Contains(r.stem, r.src)
        \/ r.dirs # <<>> /\ Contains(r.stem, r.dirs[1])

\* C3 as amended: an artifact relocated by the batch entry point lies below
\* some directory (not always its parent) whose name contains the stem; one
\* relocated by the single-item entry point lies in the root and has the
\* stem in its own name.
C3_StemInSomeDirOrName ==
    \A r \in relocated :
        IF entry = "batch"
        THEN \E k \in DOMAIN r.dirs : Contains(r.stem, r.dirs[k])
        ELSE r.dirs = <<>> /\ Contains(r.stem, r.src)

\* C3 witness: a relocated artifact whose stem is neither in its own name nor
\* in its parent's, but in the directory above.
C3_Witness ==
    \E r \in relocated :
        /\ ~Contains(r.stem, r.src)
        /\ Len(r.dirs) >= 2
        /\ ~Contains(r.stem, r.dirs[1])
        /\ Contains(r.stem, r.dirs[2])

\* The finished items whose engine was started and exited nonzero.
EngineFailures == {i \in DOMAIN runs : runs[i].cause = "EngineExitFailure"}

\* The cause recorded for an item says what happened to it: its engine was
\* started and exited nonzero exactly when the cause is EngineExitFailure,
\* and it succeeded exactly when the engine exited 0, artifacts were found
\* and all of them were copied.
OutcomeIsItsOwn(r) ==
    /\ r.cause = "LaunchFailure" <=> ~r.launched
    /\ r.cause = "EngineExitFailure" <=> (r.launched /\ r.rc # 0)
    /\ r.result = "succeeded" <=>
          (r.launched /\ r.rc = 0 /\ r.nfound > 0 /\ r.ncopied = r.nfound)

\* The batch has ended, and the engine of exactly one item exited nonzero.
OneEngineFailure ==
    /\ entry = "batch"
    /\ pc = "done"
    /\ Cardinality(EngineFailures) = 1

\* C4 as stated: when only item k's engine exits nonzero (the engine of
\* every other item was started and exited 0), every item gets an outcome and
\* the tally reports exactly 1 failure.
C4_ExactlyOneFailure ==
    (OneEngineFailure /\ \A i \in DOMAIN runs : runs[i].cause # "LaunchFailure") =>
        /\ Len(runs) = Len(fits_files)
        /\ failed = 1

\* C4 as amended: when only item k's engine exits nonzero, every item is
\* attempted once and gets an outcome; the tally's failures are item k and
\* the other items that failed for a reason of their own, so exactly 1 (with
\* N-1 successes) when all the other items succeed.
C4_IsolatedFailure ==
    /\ entry = "batch" =>
          \A i \in DOMAIN last :
              /\ OutcomeIsItsOwn(last[i])
              /\ Outcome(last[i].item, last[i].result, last[i].cause) = runs[Len(runs)]
    /\ OneEngineFailure =>
          LET others == DOMAIN runs \ EngineFailures
              othersFailed == {i \in others : runs[i].result = "failed"}
          IN  /\ Len(runs) = Len(fits_files)
              /\ invoked = fits_files
              /\ \A i \in DOMAIN runs : runs[i].item = fits_files[i]
              /\ \A i \in EngineFailures : runs[i].result = "failed"
              /\ failed = 1 + Cardinality(othersFailed)
              /\ othersFailed = {} =>
                    failed = 1 /\ successful = Len(fits_files) - 1

\* C4 witness: the engine of the first of two items exited nonzero, and the
\* second item succeeded.
C4_Witness ==
    /\ OneEngineFailure
    /\ Len(fits_files) = 2
    /\ 1 \in EngineFailures
    /\ runs[2].result = "succeeded"
    /\ failed = 1
    /\ successful = 1

\* C5: no step changes the output tree or the raw-data directory.
C5_TreesUntouched ==
    [][outTree' = outTree /\ rootExists' = rootExists /\ rawDir' = rawDir]_vars

\* C6: the batch exits 0 exactly when every scanned item succeeded, and
\* nonzero exactly when some item failed.
C6_ExitStatus ==
    (entry = "batch" /\ pc = "done") =>
        /\ exitStatus \in {0, 1}
        /\ Len(runs) = Cardinality(rawDir \cap RawFits)
        /\ exitStatus = 0 <=> \A i \in DOMAIN runs : runs[i].result = "succeeded"
        /\ exitStatus # 0 <=> \E i \in DOMAIN runs : runs[i].result = "failed"

\* C6 witness: a batch that ended nonzero with one item succeeded and one
\* failed.
C6_Witness ==
    /\ entry = "batch"
    /\ pc = "done"
    /\ exitStatus # 0
    /\ \E i, j \in DOMAIN runs :
          runs[i].result = "succeeded" /\ runs[j].result = "failed"

\* C7: an invocation succeeded exactly when the child was started and exited
\* with status 0, whatever markers its output held; the program goes on to
\* locate and relocate only after such an invocation.
C7_ExitStatusDecides ==
    /\ \A i \in DOMAIN last :
          /\ last[i].invokeOK <=> (last[i].launched /\ last[i].rc = 0)
          /\ ~last[i].invokeOK => last[i].result # "succeeded"
          /\ (~last[i].invokeOK /\ entry = "batch") => last[i].result = "failed"
    /\ pc \in {"locate", "copy", "move"} => returncode = 0

\* C7 witness: a marker appeared and the child exited nonzero, so the
\* invocation failed.
C7_Witness ==
    \E i \in DOMAIN last :
        last[i].marker /\ last[i].launched /\ last[i].rc # 0 /\ ~last[i].invokeOK

\* C8: no call of the Relocator reduces the number of files in the
\* destination, and every call that returns True has increased it.
C8_EveryCallAddsFiles ==
    \A i \in DOMAIN runs :
        /\ runs[i].after >= runs[i].before
        /\ runs[i].ok = "True" => runs[i].after > runs[i].before

\* C9: with no *.fits file in the raw-data directory the batch launches no
\* engine, copies nothing, counts nothing and exits 0.
C9_EmptyInput ==
    (entry = "batch" /\ rawDir \cap RawFits = {}) =>
        /\ pc \in {"start", "done"}
        /\ invoked = <<>>
        /\ relocated = {}
        /\ \A n \in DOMAIN destDir : destDir[n] = Old
        /\ successful = 0 /\ failed = 0 /\ Len(fits_files) = 0
        /\ pc = "done" => exitStatus = 0

\* C9 witness: a batch over a raw-data directory that holds a file, none
\* named *.fits, has ended.
C9_Witness ==
    /\ entry = "batch"
    /\ rawDir # {}
    /\ rawDir \cap RawFits = {}
    /\ pc = "done"
    /\ exitStatus = 0

\* C10: the engine is launched once per scanned item, in ascending order of
\* the paths, and never before the item before has its outcome.
C10_OncePerItemInOrder ==
    entry = "batch" =>
        /\ \A i, j \in DOMAIN invoked : i < j => StrLess(invoked[i], invoked[j])
        /\ Range(invoked) \subseteq rawDir \cap RawFits
        /\ \A i \in DOMAIN runs : runs[i].item = invoked[i]
        /\ Len(invoked) = Len(runs) + (IF pc \in {"stream", "locate", "copy"} THEN 1 ELSE 0)
        /\ pc = "done" => Range(invoked) = rawDir \cap RawFits

\* C10 witness: a batch of two items has ended, the first item failed, and
\* each item was launched once.
C10_Witness ==
    /\ entry = "batch"
    /\ pc = "done"
    /\ Len(invoked) = 2
    /\ runs[1].result = "failed"

\* An entry of the ledger, wherever it stands.
LedgerHas(e) == \E i \in DOMAIN ledger : ledger[i] = e

\* The batch stands between two items or has ended, so that ledger holds the
\* entries of the item `last` describes.
BetweenItems == entry = "batch" /\ pc \in {"launch", "done"}

\* C11: no error of an item escapes as an unhandled error: no run of an item
\* ends crashed, and an item whose run met an error ends with the recorded
\* outcome failed, in the batch and in the single-item entry point.
C11_NoErrorEscapes ==
    \A i \in DOMAIN runs :
        /\ runs[i].result # "crashed"
        /\ runs[i].cause # "none" => runs[i].result = "failed"

\* C12: a call of the Relocator on a nonempty list returns True exactly when
\* every artifact was copied without error; when a copy raises it returns
\* False, no artifact after the failing one is copied, and every artifact
\* copied before it is in the destination, under the name it was copied to.
C12_AllOrFailure ==
    (pc = "call" /\ runs # <<>> /\ products # <<>>) =>
        /\ ThisCall.ok \in {"True", "False"}
        /\ ThisCall.ok = "True" <=>
              (ThisCall.failedAt = 0 /\ Len(ThisCall.copies) = Len(products))
        /\ ThisCall.ok = "False" =>
              /\ ThisCall.failedAt = Len(ThisCall.copies) + 1
              /\ \A j \in DOMAIN ThisCall.copies :
                     /\ ThisCall.copies[j] \in DOMAIN destDir
                     /\ destDir[ThisCall.copies[j]] = NodeContent(products[j])

\* C13: an item for which no artifact was found fails with nothing copied,
\* and its ledger entries differ from those of a copy error: the warning
\* "No products found to move" is written for the one and not for the other,
\* the error "Failed to move products:" for the other and not for the one.
C13_NoProductsDistinct ==
    BetweenItems =>
        \A i \in DOMAIN last :
            /\ last[i].cause = "NoArtifactsFound" =>
                  /\ last[i].result = "failed"
                  /\ \A r \in relocated : r.stem # PathStem(last[i].item)
                  /\ ~LedgerHas(Info("Moved"))
                  /\ LedgerHas(Warning("No products found to move"))
                  /\ ~LedgerHas(Error("Failed to move products:"))
            /\ last[i].cause = "RelocationIOFailure" =>
                  /\ last[i].result = "failed"
                  /\ LedgerHas(Error("Failed to move products:"))
                  /\ ~LedgerHas(Warning("No products found to move"))

\* C13 witness: the first of two items has just failed because no artifact
\* of it was found in an output tree that holds files, and the warning is in
\* the ledger.
C13_Witness ==
    /\ BetweenItems
    /\ pc = "launch"
    /\ rootExists
    /\ \E n \in DOMAIN outTree : MatchesFitsGlob(outTree[n].name)
    /\ \E i \in DOMAIN last : last[i].cause = "NoArtifactsFound"
    /\ LedgerHas(Warning("No products found to move"))

\* C14: while the engine of an item runs, whenever the orchestrator awaits
\* the next line, every line it has read so far is in the per-input log file
\* on disk.
C14_LinesOnDisk ==
    (entry = "batch" /\ pc = "stream") => logOnDisk = nlines

\* C15: automate.py given a number of arguments other than one exits 1 and
\* launches no engine and moves nothing; given one argument it launches the
\* engine once, for that argument, and moves only artifacts of that item.
C15_SingleArgument ==
    entry = "single" =>
        /\ Len(argv) # 1 =>
              /\ pc \in {"start", "done"}
              /\ pc = "done" => exitStatus = 1
              /\ invoked = <<>>
              /\ runs = <<>>
              /\ relocated = {}
              /\ \A n \in DOMAIN destDir : destDir[n] = Old
        /\ Len(argv) = 1 =>
              /\ invoked = IF pc \in {"start", "launch"} THEN <<>> ELSE <<argv[1]>>
              /\ \A i \in DOMAIN runs : i = 1 /\ runs[i].item = argv[1]
              /\ \A r \in relocated : r.stem = PathStem(argv[1])
              /\ pc = "done" => Len(runs) = 1

\* C15 witness: automate.py was given two arguments and has exited 1.
C15_Witness ==
    /\ entry = "single"
    /\ Len(argv) = 2
    /\ pc = "done"
    /\ exitStatus = 1

\* The number of entries e of the ledger.
LedgerCount(e) == Cardinality({i \in DOMAIN ledger : ledger[i] = e})

\* The ledger shows that the Locator ran for the item.
LocatorRan ==
    \/ LedgerHas(Info("Found output product(s)"))
    \/ LedgerHas(Warning("Reflex products directory does not exist"))

\* C16: an item of the batch ends succeeded exactly when its engine exited 0,
\* the Locator then found artifacts and all of them were copied; for an item
\* whose invocation failed the Locator is not run and nothing is copied; every
\* item gets one outcome, succeeded or failed, in one pass.
C16_PerItemStateMachine ==
    entry = "batch" =>
        /\ BetweenItems =>
              \A i \in DOMAIN last :
                  /\ last[i].result \in {"succeeded", "failed"}
                  /\ last[i].result = "succeeded" <=>
                        /\ last[i].launched /\ last[i].rc = 0
                        /\ last[i].nfound > 0
                        /\ last[i].ncopied = last[i].nfound
                  /\ last[i].result = "succeeded" <=>
                        LedgerHas(Info("Successfully processed"))
                  /\ LedgerCount(Info("Moved")) = last[i].ncopied
                  /\ LocatorRan <=> (last[i].launched /\ last[i].rc = 0)
                  /\ ~(last[i].launched /\ last[i].rc = 0) =>
                        /\ last[i].ncopied = 0
                        /\ \A r \in relocated : r.stem # PathStem(last[i].item)
        /\ Len(runs) <= Len(fits_files)
        /\ \A i \in DOMAIN runs :
              runs[i].item = fits_files[i] /\ runs[i].result \in {"succeeded", "failed"}
        /\ pc = "done" => Len(runs) = Len(fits_files)

\* C16 witness: a batch has ended whose first item failed at the invocation
\* and whose second item found artifacts and copied them all.
C16_Witness ==
    /\ entry = "batch"
    /\ pc = "done"
    /\ Len(runs) = 2
    /\ runs[1].cause \in {"LaunchFailure", "EngineExitFailure"}
    /\ last[1].result = "succeeded"
    /\ last[1].ncopied > 0

\* C17: when the root of the output tree does not exist, the Locator of an
\* item whose invocation succeeded returns nothing and logs a warning, the
\* item ends failed with NoArtifactsFound, and the batch goes on to the next
\* item.
C17_MissingRoot ==
    (entry = "batch" /\ ~rootExists) =>
        /\ BetweenItems =>
              \A i \in DOMAIN last :
                  last[i].invokeOK =>
                      /\ last[i].nfound = 0
                      /\ last[i].result = "failed"
                      /\ last[i].cause = "NoArtifactsFound"
                      /\ LedgerHas(Warning("Reflex products directory does not exist"))
        /\ pc \notin {"copy"}
        /\ pc = "launch" => idx = Len(runs) + 1
        /\ pc = "done" => Len(runs) = Len(fits_files)

\* C17 witness: with no root, the first of two items failed with
\* NoArtifactsFound, and the engine was then started for the second.
C17_Witness ==
    /\ entry = "batch"
    /\ ~rootExists
    /\ Len(fits_files) = 2
    /\ Len(runs) >= 1
    /\ runs[1].cause = "NoArtifactsFound"
    /\ Len(invoked) = 2

\* The finished items with the given outcome.
Ended(result) == {i \in DOMAIN runs : runs[i].result = result}

\* C18: in the batch, successful + failed is the number of items processed so
\* far, each counter is the number of items with that outcome, every finished
\* item adds one to exactly one of the counters, and at the end
\* successful + failed is the number of scanned items.
C18_Tally ==
    /\ [](entry = "batch" =>
             /\ successful + failed = Len(runs)
             /\ successful = Cardinality(Ended("succeeded"))
             /\ failed = Cardinality(Ended("failed"))
             /\ pc \notin {"start", "done"} => Len(runs) = idx - 1
             /\ pc = "done" => successful + failed = Len(fits_files))
    /\ [][entry = "batch" =>
             \/ /\ Len(runs') = Len(runs)
                /\ successful' = successful
                /\ failed' = failed
             \/ /\ Len(runs') = Len(runs) + 1
                /\ \/ successful' = successful + 1 /\ failed' = failed
                   \/ successful' = successful /\ failed' = failed + 1]_vars

\* C18 witness: of two items the first succeeded and the engine of the second
\* exited nonzero: total 2, succeeded 1, failed 1, exit status nonzero.
C18_Witness ==
    /\ entry = "batch"
    /\ pc = "done"
    /\ Len(fits_files) = 2
    /\ runs[1].result = "succeeded"
    /\ runs[2].cause = "EngineExitFailure"
    /\ successful = 1
    /\ failed = 1
    /\ exitStatus # 0

\* C20: the list the Locator returns names each file of the output tree at
\* most once.
C20_EachFileOnce ==
    pc = "located" =>
        \A i, j \in DOMAIN products : products[i] = products[j] => i = j

\* C19: if no engine hangs, the batch ends, with an outcome for every scanned
\* item; once the engine of an item hangs, the orchestrator waits on it for
\* ever: it never exits, and no item after that one is attempted.
C19_Termination ==
    /\ [](pc # "hung") => <>(pc = "done")
    /\ [](pc = "done" => (exitStatus # NoCode /\ Len(runs) = Len(fits_files)))
    /\ [](pc = "hung" =>
            /\ exitStatus = NoCode
            /\ invoked = SubSeq(fits_files, 1, idx)
            /\ Len(runs) = idx - 1)
    /\ [][pc = "hung" => pc' = "hung"]_vars

\* C19 witness: the engine of the first of two items hangs.
C19_Witness ==
    /\ pc = "hung"
    /\ Len(fits_files) = 2
    /\ idx = 1
    /\ invoked = <<fits_files[1]>>
====
